---- MODULE Spec2Model ----
(***************************************************************************)
(* Balance-consistency subsystem of the money-manager backend.             *)
(*                                                                         *)
(* The store is two collections (accounts, transactions).  A request       *)
(* handler is a sequence of store operations, one per `await`; every store *)
(* operation is atomic, and handlers of different requests interleave      *)
(* between them.  The handlers modelled are the ones the controller        *)
(* exports last (createTransaction / getTransaction / updateTransaction /  *)
(* deleteTransaction with $inc), updateAccount and deleteAccount, and the  *)
(* report getCategoryBreakdown.  recalibrateAccount is routed but its      *)
(* handler is not part of the sources; it follows the contract of the      *)
(* recalibration engine.                                                   *)
(*                                                                         *)
(* Of the schema's validators the model keeps amount's `min: 0`; category, *)
(* division, description and date do not enter any balance.  A null        *)
(* transferType passes its enum validator, as Mongoose validators skip     *)
(* null.  The schema's timestamps keep createdAt out of every update.  A   *)
(* request body is drawn where the handler first reads it.                 *)
(***************************************************************************)
EXTENDS Integers, FiniteSets, Sequences, TLC

VARIABLES accounts, transactions, nextId, clock, ops, loc, issued, report

vars == <<accounts, transactions, nextId, clock, ops, loc, issued, report>>

-----------------------------------------------------------------------------
(* Bounds of the model *)

\* transaction ids the store can hand out (ids are never reused)
MaxTx == 2
\* requests accepted in one behaviour, one at a time
MaxOps == 2
\* requests accepted in one behaviour, two at a time
MaxConcOps == 3
\* transactions a report's filters select
MaxMatched == 3

-----------------------------------------------------------------------------
(* Values *)

Users == {"u1", "u2"}
AcctIds == {"a1", "a2", "a3"}
Types == {"income", "expense", "transfer"}

\* a key that is not in the request body (undefined)
Absent == "absent"
\* null / undefined stored in a document
Null == "null"
\* the empty string, as a form sends a cleared field
Empty == ""

\* wall clock, in hours
Hours == {0, 6, 12}

\* 12 * 60 * 60 * 1000 ms, in hours
EditWindow == 12

\* the sequential program and the two concurrent requests
SeqProcs == {1}
ConcProcs == {1, 2}

-----------------------------------------------------------------------------
(* Account and Transaction documents *)

\* Account.create: the documents the behaviours start from
InitialAccounts ==
  [a \in AcctIds |->
     [id |-> a,
      userId |-> IF a = "a3" THEN "u2" ELSE "u1",
      balance |-> IF a = "a1" THEN 5 ELSE IF a = "a2" THEN 2 ELSE 0,
      openingBalance |-> IF a = "a1" THEN 5 ELSE IF a = "a2" THEN 2 ELSE 0]]

\* a lookup by _id alone, whoever owns the account
AccountFindById(accts, id, user) ==
  IF id \in DOMAIN accts THEN <<accts[id]>> ELSE <<>>

\* Account.findOne({ _id, userId }): <<doc>> or <<>> for null
AccountFindOne(accts, id, user) ==
  IF id \in DOMAIN accts /\ accts[id].userId = user THEN <<accts[id]>> ELSE <<>>

\* a lookup by _id alone, whoever owns the record
TransactionFindById(txs, id, user) ==
  IF id \in DOMAIN txs THEN <<txs[id]>> ELSE <<>>

\* Transaction.findOne({ _id, userId }): <<doc>> or <<>> for null
TransactionFindOne(txs, id, user) ==
  IF id \in DOMAIN txs /\ txs[id].userId = user THEN <<txs[id]>> ELSE <<>>

\* Account.findByIdAndUpdate(id, { $inc: { balance: by } }): no document, no change
IncBalance(accts, id, by) ==
  IF id \in DOMAIN accts THEN [accts EXCEPT ![id].balance = @ + by] ELSE accts

\* a window that is still open at exactly 12 hours
IsEditableInclusive(t, now) == t.createdAt >= now - EditWindow

\* transactionSchema.virtual('isEditable')
IsEditable(t, now) == t.createdAt > now - EditWindow

\* schema validation of a new document: amount has min 0
CreateValid(doc) == doc.amount >= 0

Inc(id, by) == [id |-> id, by |-> by]

-----------------------------------------------------------------------------
(* Request bodies *)

\* req.body of POST /api/transactions
CreateBodies ==
  [accountId : AcctIds, type : Types, amount : {<<-1>>, <<1>>},
   toAccountId : {Absent} \cup AcctIds]

\* req.body of PUT /api/transactions/:id (any subset of the fields)
UpdateBodies ==
  [accountId : {Absent, "a2", "a3"}, type : {Absent} \cup Types,
   amount : {<<>>, <<-1>>, <<2>>},
   toAccountId : {Absent, Empty, "a2", "a3"}, createdAt : {<<>>}]

NoBody == [accountId |-> Absent, type |-> Absent, amount |-> <<>>, toAccountId |-> Absent]

-----------------------------------------------------------------------------
(* The balance adjustments each handler issues, in order *)

\* createTransaction: "Update account balances atomically using $inc"
CreateIncs(b) ==
  IF b.type = "income" THEN <<Inc(b.accountId, b.amount[1])>>
  ELSE IF b.type = "expense" THEN <<Inc(b.accountId, -b.amount[1])>>
  ELSE IF b.type = "transfer" /\ b.toAccountId # Absent
    THEN <<Inc(b.accountId, -b.amount[1]), Inc(b.toAccountId, b.amount[1])>>
  ELSE <<>>

\* updateTransaction: "1. REVERSE OLD TRANSACTION IMPACT"
UpdateReverseIncs(t) ==
  IF t.type = "income" THEN <<Inc(t.accountId, -t.amount)>>
  ELSE IF t.type = "expense" THEN <<Inc(t.accountId, t.amount)>>
  ELSE <<Inc(t.accountId, t.amount)>>
       \o (IF t.toAccountId # Null THEN <<Inc(t.toAccountId, -t.amount)>> ELSE <<>>)

\* updateTransaction: "2. CLEAN UP PAYLOAD"
CleanPayload(b) ==
  IF b.type # "transfer"
    THEN [accountId |-> b.accountId, type |-> b.type, amount |-> b.amount,
          createdAt |-> b.createdAt, toAccountId |-> Null, transferType |-> Null]
  ELSE IF b.toAccountId = Empty
    THEN [accountId |-> b.accountId, type |-> b.type, amount |-> b.amount,
          createdAt |-> b.createdAt, toAccountId |-> Null, transferType |-> Null]
  ELSE [accountId |-> b.accountId, type |-> b.type, amount |-> b.amount,
        createdAt |-> b.createdAt,
        toAccountId |-> b.toAccountId, transferType |-> "transfer_out"]

\* runValidators: true, on the paths the update sets (amount has min 0)
UpdateValid(u) == u.amount = <<>> \/ u.amount[1] >= 0

\* an update that sets createdAt like any other path of the payload
MergedWithCreatedAt(t, u) ==
  [t EXCEPT !.accountId = IF u.accountId = Absent THEN @ ELSE u.accountId,
            !.type = IF u.type = Absent THEN @ ELSE u.type,
            !.amount = IF u.amount = <<>> THEN @ ELSE u.amount[1],
            !.toAccountId = IF u.toAccountId = Absent THEN @ ELSE u.toAccountId,
            !.transferType = u.transferType,
            !.createdAt = IF u.createdAt = <<>> THEN @ ELSE u.createdAt[1]]

\* the document Transaction.findByIdAndUpdate(id, updateData, { new: true })
\* leaves; createdAt is kept by the schema's timestamps, which take it out of
\* every update
Merged(t, u) ==
  [t EXCEPT !.accountId = IF u.accountId = Absent THEN @ ELSE u.accountId,
            !.type = IF u.type = Absent THEN @ ELSE u.type,
            !.amount = IF u.amount = <<>> THEN @ ELSE u.amount[1],
            !.toAccountId = IF u.toAccountId = Absent THEN @ ELSE u.toAccountId,
            !.transferType = u.transferType]

\* updateTransaction: "4. APPLY NEW TRANSACTION IMPACT"
UpdateApplyIncs(t) ==
  IF t.type = "income" THEN <<Inc(t.accountId, t.amount)>>
  ELSE IF t.type = "expense" THEN <<Inc(t.accountId, -t.amount)>>
  ELSE IF t.type = "transfer" /\ t.toAccountId # Null
    THEN <<Inc(t.accountId, -t.amount), Inc(t.toAccountId, t.amount)>>
  ELSE <<>>

\* a reversal that forgets the destination of a transfer
DeleteReverseIncsSourceOnly(t) ==
  IF t.type = "income" THEN <<Inc(t.accountId, -t.amount)>>
  ELSE IF t.type = "expense" THEN <<Inc(t.accountId, t.amount)>>
  ELSE <<Inc(t.accountId, t.amount)>>

\* deleteTransaction: "Revert account balance atomically using $inc"
DeleteReverseIncs(t) ==
  IF t.type = "income" THEN <<Inc(t.accountId, -t.amount)>>
  ELSE IF t.type = "expense" THEN <<Inc(t.accountId, t.amount)>>
  ELSE <<Inc(t.accountId, t.amount)>>
       \o (IF t.toAccountId # Null THEN <<Inc(t.toAccountId, -t.amount)>> ELSE <<>>)

-----------------------------------------------------------------------------
(* One request in flight: the handler's local variables and its position *)

IdleLoc ==
  [op |-> "idle", pc |-> "idle", user |-> Null, txId |-> 0, body |-> NoBody,
   account |-> <<>>, transaction |-> <<>>, todo |-> <<>>, status |-> "",
   \* history of the request, for stating properties
   pre |-> <<>>, old |-> <<>>, now |-> 0, missed |-> FALSE, raced |-> FALSE,
   failed |-> FALSE]

Start(l, op, pc, user, txId, body) ==
  [l EXCEPT !.op = op, !.pc = pc, !.user = user, !.txId = txId, !.body = body,
                  !.pre = <<[accounts |-> accounts, transactions |-> transactions]>>]

\* res.status(code).json(...) or next(error): the handler has returned
Finish(l, status) ==
  [l EXCEPT !.pc = "done", !.status = status, !.todo = <<>>,
            !.failed = @ \/ status \notin {"200", "201"}]

\* ids handed out and ids promised to creates in flight
Creating(procs) == Cardinality({q \in procs : loc[q].op = "createTransaction" /\ loc[q].pc \in {"findAccount", "create"}})

\* the store and the server, before the first request
InitStore ==
  /\ accounts = InitialAccounts
  /\ transactions = <<>>
  /\ nextId = 1
  /\ clock = 0
  /\ ops = 0
  /\ loc = [p \in ConcProcs |-> IdleLoc]
  /\ issued = [a \in AcctIds |-> 0]

\* a report request: the transactions its $match stage selects, the rows of
\* the aggregation and the response
NoReport == [pc |-> "idle", matched |-> <<>>, breakdown |-> <<>>, total |-> 0]

Init == InitStore /\ report = NoReport

\* time passes.  A handler reads the clock once (createdAt at Transaction.create,
\* Date.now() in isEditable), so time passing while a request is in flight is
\* the same as time passing just before or just after it.
Tick ==
  /\ \A q \in DOMAIN loc : loc[q].pc = "idle"
  /\ \E h \in Hours : h > clock /\ clock' = h
  /\ UNCHANGED <<accounts, transactions, nextId, ops, loc, issued, report>>

-----------------------------------------------------------------------------
(* createTransaction *)

\* the handler reads accountId first; the rest of the body is drawn where the
\* handler first uses it
BeginCreate(p, procs, user, a, max) ==
  /\ loc[p].op = "idle"
  /\ ops < max
  /\ nextId + Creating(procs) <= MaxTx
  /\ loc' = [loc EXCEPT ![p] = Start(loc[p], "createTransaction", "findAccount", user, 0, [NoBody EXCEPT !.accountId = a])]
  /\ ops' = ops + 1
  /\ UNCHANGED <<accounts, transactions, nextId, clock, issued, report>>

\* "Verify account belongs to user"
CreateFindAccount(p) ==
  LET l == loc[p]
      account == AccountFindOne(accounts, l.body.accountId, l.user)
  IN /\ l.op = "createTransaction" /\ l.pc = "findAccount"
     /\ loc' = [loc EXCEPT ![p] =
                  IF account = <<>> THEN Finish(l, "404")
                  ELSE [l EXCEPT !.account = account, !.pc = "create"]]
     /\ UNCHANGED <<accounts, transactions, nextId, clock, ops, issued, report>>

\* the document Transaction.create is given
NewTransaction(l, id, now) ==
  [id |-> id, userId |-> l.user, accountId |-> l.body.accountId, type |-> l.body.type,
   amount |-> l.body.amount[1],
   toAccountId |-> IF l.body.type = "transfer" /\ l.body.toAccountId # Absent
                     THEN l.body.toAccountId ELSE Null,
   transferType |-> IF l.body.type = "transfer" THEN "transfer_out" ELSE Null,
   createdAt |-> now]

\* "Create transaction"
CreateInsert(p, body) ==
  LET l == [loc[p] EXCEPT !.body = body]
      doc == NewTransaction(l, nextId, clock)
      todo == CreateIncs(l.body)
  IN /\ loc[p].op = "createTransaction" /\ loc[p].pc = "create"
     /\ body.accountId = loc[p].body.accountId
     /\ IF ~CreateValid(doc)
          THEN /\ loc' = [loc EXCEPT ![p] = Finish(l, "error")]
               /\ UNCHANGED <<transactions, nextId>>
          ELSE /\ transactions' = (nextId :> doc) @@ transactions
               /\ nextId' = nextId + 1
               /\ loc' = [loc EXCEPT ![p] =
                            IF todo = <<>> THEN Finish([l EXCEPT !.transaction = <<doc>>], "201")
                            ELSE [l EXCEPT !.transaction = <<doc>>, !.todo = todo, !.pc = "apply"]]
     /\ UNCHANGED <<accounts, clock, ops, issued, report>>

-----------------------------------------------------------------------------
(* One balance adjustment: await Account.findByIdAndUpdate(id, { $inc }) *)

InFlight(q) == loc[q].pc \notin {"idle", "done"}

Pending(l) == {l.todo[i].id : i \in DOMAIN l.todo}

\* read-modify-write on the document the handler loaded: account.balance += by;
\* await account.save()
ApplyIncSave(accts, l) ==
  LET h == Head(l.todo)
  IN IF l.account # <<>> /\ h.id = l.account[1].id /\ h.id \in DOMAIN accts
       THEN [accts EXCEPT ![h.id].balance = l.account[1].balance + h.by]
       ELSE IncBalance(accts, h.id, h.by)

\* the store operation the handler issues next
ApplyInc(accts, l) == IncBalance(accts, Head(l.todo).id, Head(l.todo).by)

\* the handler at p issues the first of its pending adjustments; `after` is where
\* it goes once none is left
Adjust(p, after) ==
  LET l == loc[p]
      h == Head(l.todo)
      rest == Tail(l.todo)
      seen == [l EXCEPT !.todo = rest,
                        !.missed = @ \/ h.id \notin DOMAIN accounts,
                        !.raced = @ \/ \E q \in DOMAIN loc : q # p /\ InFlight(q) /\ h.id \in Pending(loc[q])]
  IN /\ accounts' = ApplyInc(accounts, l)
     /\ issued' = [issued EXCEPT ![h.id] = @ + h.by]
     /\ loc' = [loc EXCEPT ![p] = IF rest # <<>> THEN seen
                                   ELSE IF after \in {"201", "200"} THEN Finish(seen, after)
                                   ELSE [seen EXCEPT !.pc = after]]
     /\ UNCHANGED <<transactions, nextId, clock, ops, report>>

\* createTransaction, after the record is persisted
CreateApply(p) ==
  /\ loc[p].op = "createTransaction" /\ loc[p].pc = "apply"
  /\ Adjust(p, "201")

-----------------------------------------------------------------------------
(* updateTransaction *)

\* req.body is drawn where the handler first reads it ("2. CLEAN UP PAYLOAD")
BeginUpdate(p, user, id, max) ==
  /\ loc[p].op = "idle"
  /\ ops < max
  /\ loc' = [loc EXCEPT ![p] = Start(loc[p], "updateTransaction", "find", user, id, NoBody)]
  /\ ops' = ops + 1
  /\ UNCHANGED <<accounts, transactions, nextId, clock, issued, report>>

\* findOne({ _id, userId }), then the edit-window check
UpdateFind(p) ==
  LET l == loc[p]
      transaction == TransactionFindOne(transactions, l.txId, l.user)
  IN /\ l.op = "updateTransaction" /\ l.pc = "find"
     /\ loc' = [loc EXCEPT ![p] =
                  IF transaction = <<>> THEN Finish(l, "404")
                  ELSE IF ~IsEditable(transaction[1], clock)
                    THEN Finish([l EXCEPT !.old = transaction, !.now = clock], "403")
                  ELSE [l EXCEPT !.transaction = transaction, !.old = transaction,
                                 !.now = clock, !.pc = "reverse",
                                 !.todo = UpdateReverseIncs(transaction[1])]]
     /\ UNCHANGED <<accounts, transactions, nextId, clock, ops, issued, report>>

UpdateReverse(p) ==
  /\ loc[p].op = "updateTransaction" /\ loc[p].pc = "reverse"
  /\ Adjust(p, "update")

\* "3. UPDATE TRANSACTION": a validation error, or null for a record that is gone
\* (reading transaction.type then throws), goes to next(error)
UpdateWrite(p, body) ==
  LET l == [loc[p] EXCEPT !.body = body]
      updateData == CleanPayload(l.body)
  IN /\ loc[p].op = "updateTransaction" /\ loc[p].pc = "update"
     /\ IF ~UpdateValid(updateData) \/ l.txId \notin DOMAIN transactions
          THEN /\ loc' = [loc EXCEPT ![p] = Finish(l, "error")]
               /\ UNCHANGED transactions
          ELSE LET doc == Merged(transactions[l.txId], updateData)
                   todo == UpdateApplyIncs(doc)
               IN /\ transactions' = [transactions EXCEPT ![l.txId] = doc]
                  /\ loc' = [loc EXCEPT ![p] =
                               IF todo = <<>> THEN Finish([l EXCEPT !.transaction = <<doc>>], "200")
                               ELSE [l EXCEPT !.transaction = <<doc>>, !.todo = todo, !.pc = "apply"]]
     /\ UNCHANGED <<accounts, nextId, clock, ops, issued, report>>

UpdateApply(p) ==
  /\ loc[p].op = "updateTransaction" /\ loc[p].pc = "apply"
  /\ Adjust(p, "200")

-----------------------------------------------------------------------------
(* deleteTransaction *)

Without(f, k) == [x \in DOMAIN f \ {k} |-> f[x]]

BeginDelete(p, user, id, max) ==
  /\ loc[p].op = "idle"
  /\ ops < max
  /\ loc' = [loc EXCEPT ![p] = Start(loc[p], "deleteTransaction", "find", user, id, NoBody)]
  /\ ops' = ops + 1
  /\ UNCHANGED <<accounts, transactions, nextId, clock, issued, report>>

DeleteFind(p) ==
  LET l == loc[p]
      transaction == TransactionFindOne(transactions, l.txId, l.user)
  IN /\ l.op = "deleteTransaction" /\ l.pc = "find"
     /\ loc' = [loc EXCEPT ![p] =
                  IF transaction = <<>> THEN Finish(l, "404")
                  ELSE IF ~IsEditable(transaction[1], clock)
                    THEN Finish([l EXCEPT !.old = transaction, !.now = clock], "403")
                  ELSE [l EXCEPT !.transaction = transaction, !.old = transaction,
                                 !.now = clock, !.pc = "reverse",
                                 !.todo = DeleteReverseIncs(transaction[1])]]
     /\ UNCHANGED <<accounts, transactions, nextId, clock, ops, issued, report>>

DeleteReverse(p) ==
  /\ loc[p].op = "deleteTransaction" /\ loc[p].pc = "reverse"
  /\ Adjust(p, "remove")

\* await transaction.deleteOne()
DeleteRemove(p) ==
  LET l == loc[p]
  IN /\ l.op = "deleteTransaction" /\ l.pc = "remove"
     /\ transactions' = Without(transactions, l.txId)
     /\ loc' = [loc EXCEPT ![p] = Finish(l, "200")]
     /\ UNCHANGED <<accounts, nextId, clock, ops, issued, report>>

-----------------------------------------------------------------------------
(* getTransaction *)

BeginGet(p, user, id, max) ==
  /\ loc[p].op = "idle"
  /\ ops < max
  /\ loc' = [loc EXCEPT ![p] = Start(loc[p], "getTransaction", "find", user, id, NoBody)]
  /\ ops' = ops + 1
  /\ UNCHANGED <<accounts, transactions, nextId, clock, issued, report>>

\* findOne({ _id, userId }); the record or 'Transaction not found'
GetFind(p) ==
  LET l == loc[p]
      transaction == TransactionFindOne(transactions, l.txId, l.user)
  IN /\ l.op = "getTransaction" /\ l.pc = "find"
     /\ loc' = [loc EXCEPT ![p] =
                  IF transaction = <<>> THEN Finish(l, "404")
                  ELSE Finish([l EXCEPT !.transaction = transaction], "200")]
     /\ UNCHANGED <<accounts, transactions, nextId, clock, ops, issued, report>>

-----------------------------------------------------------------------------
(* deleteAccount *)

BeginDeleteAccount(p, user, a, max) ==
  /\ loc[p].op = "idle"
  /\ ops < max
  /\ loc' = [loc EXCEPT ![p] =
               Start(loc[p], "deleteAccount", "findAccount", user, 0, [NoBody EXCEPT !.accountId = a])]
  /\ ops' = ops + 1
  /\ UNCHANGED <<accounts, transactions, nextId, clock, issued, report>>

DeleteAccountFind(p) ==
  LET l == loc[p]
      account == AccountFindOne(accounts, l.body.accountId, l.user)
  IN /\ l.op = "deleteAccount" /\ l.pc = "findAccount"
     /\ loc' = [loc EXCEPT ![p] =
                  IF account = <<>> THEN Finish(l, "404")
                  ELSE [l EXCEPT !.account = account, !.pc = "removeAccount"]]
     /\ UNCHANGED <<accounts, transactions, nextId, clock, ops, issued, report>>

\* await account.deleteOne()
DeleteAccountRemove(p) ==
  LET l == loc[p]
  IN /\ l.op = "deleteAccount" /\ l.pc = "removeAccount"
     /\ accounts' = Without(accounts, l.body.accountId)
     /\ loc' = [loc EXCEPT ![p] = Finish(l, "200")]
     /\ UNCHANGED <<transactions, nextId, clock, ops, issued, report>>

-----------------------------------------------------------------------------
(* updateAccount *)

\* req.body of PUT /api/accounts/:id, as far as it names the two balances
AccountBodies == [balance : {<<>>, <<9>>}, openingBalance : {<<>>, <<7>>}]

BeginUpdateAccount(p, user, a, max) ==
  /\ loc[p].op = "idle"
  /\ ops < max
  /\ loc' = [loc EXCEPT ![p] =
               Start(loc[p], "updateAccount", "findAccount", user, 0, [NoBody EXCEPT !.accountId = a])]
  /\ ops' = ops + 1
  /\ UNCHANGED <<accounts, transactions, nextId, clock, issued, report>>

UpdateAccountFind(p) ==
  LET l == loc[p]
      account == AccountFindOne(accounts, l.body.accountId, l.user)
  IN /\ l.op = "updateAccount" /\ l.pc = "findAccount"
     /\ loc' = [loc EXCEPT ![p] =
                  IF account = <<>> THEN Finish(l, "404")
                  ELSE [l EXCEPT !.account = account, !.pc = "updateAccount"]]
     /\ UNCHANGED <<accounts, transactions, nextId, clock, ops, issued, report>>

\* the document Account.findByIdAndUpdate(id, req.body, { new: true }) leaves:
\* every path of the schema that the body names is set
AccountSet(acct, body) ==
  [acct EXCEPT !.balance = IF body.balance = <<>> THEN @ ELSE body.balance[1],
               !.openingBalance = IF body.openingBalance = <<>> THEN @ ELSE body.openingBalance[1]]

\* account = await Account.findByIdAndUpdate(req.params.id, req.body, ...)
UpdateAccountWrite(p, body) ==
  LET l == loc[p]
      a == l.body.accountId
  IN /\ l.op = "updateAccount" /\ l.pc = "updateAccount"
     /\ accounts' = IF a \in DOMAIN accounts
                      THEN [accounts EXCEPT ![a] = AccountSet(@, body)] ELSE accounts
     /\ loc' = [loc EXCEPT ![p] =
                  Finish([l EXCEPT !.body = [accountId |-> a, balance |-> body.balance,
                                            openingBalance |-> body.openingBalance]], "200")]
     /\ UNCHANGED <<transactions, nextId, clock, ops, issued, report>>

-----------------------------------------------------------------------------
(* recalibrateAccount: routed at POST /api/accounts/:id/recalibrate; modelled *)
(* from the contract of the recalibration engine                             *)

\* what one record adds to account a: income +amount, expense -amount,
\* transfer -amount on its source and +amount on its destination
Aggregated(t, a) ==
  (IF t.accountId = a THEN (IF t.type = "income" THEN t.amount ELSE -t.amount) ELSE 0)
  + (IF t.type = "transfer" /\ t.toAccountId = a THEN t.amount ELSE 0)

RECURSIVE Aggregate(_, _, _)
Aggregate(txs, ids, a) ==
  IF ids = {} THEN 0
  ELSE LET i == CHOOSE x \in ids : TRUE
       IN Aggregated(txs[i], a) + Aggregate(txs, ids \ {i}, a)

\* a recomputation that starts from the stored balance
RecalibratedFromBalance(acct, txs) ==
  acct.balance + Aggregate(txs, DOMAIN txs, acct.id)

\* balance = openingBalance + the effects of every persisted transaction that
\* has the account as its primary account or as its destination
RecalibratedBalance(acct, txs) ==
  acct.openingBalance + Aggregate(txs, DOMAIN txs, acct.id)

BeginRecalibrate(p, user, a, max) ==
  /\ loc[p].op = "idle"
  /\ ops < max
  /\ loc' = [loc EXCEPT ![p] =
               Start(loc[p], "recalibrateAccount", "findAccount", user, 0, [NoBody EXCEPT !.accountId = a])]
  /\ ops' = ops + 1
  /\ UNCHANGED <<accounts, transactions, nextId, clock, issued, report>>

\* errors: AccountNotFound
RecalibrateFind(p) ==
  LET l == loc[p]
      account == AccountFindOne(accounts, l.body.accountId, l.user)
  IN /\ l.op = "recalibrateAccount" /\ l.pc = "findAccount"
     /\ loc' = [loc EXCEPT ![p] =
                  IF account = <<>> THEN Finish(l, "404")
                  ELSE [l EXCEPT !.account = account, !.pc = "recalibrate"]]
     /\ UNCHANGED <<accounts, transactions, nextId, clock, ops, issued, report>>

\* the stored balance is overwritten with the computed value
RecalibrateWrite(p) ==
  LET l == loc[p]
      a == l.body.accountId
  IN /\ l.op = "recalibrateAccount" /\ l.pc = "recalibrate"
     /\ accounts' = IF a \in DOMAIN accounts
                      THEN [accounts EXCEPT ![a].balance = RecalibratedBalance(accounts[a], transactions)]
                      ELSE accounts
     /\ loc' = [loc EXCEPT ![p] = Finish(l, "200")]
     /\ UNCHANGED <<transactions, nextId, clock, ops, issued, report>>

-----------------------------------------------------------------------------
(* The response is sent; the next request can come in *)

Respond(p) ==
  /\ loc[p].pc = "done"
  /\ loc' = [loc EXCEPT ![p] = [IdleLoc EXCEPT !.failed = loc[p].failed]]
  /\ UNCHANGED <<accounts, transactions, nextId, clock, ops, issued, report>>

TxIds == 1..MaxTx

\* the steps of the handlers, whoever runs them
Handle(p, creates, updates) ==
  \/ CreateFindAccount(p) \/ (\E body \in creates : CreateInsert(p, body)) \/ CreateApply(p)
  \/ UpdateFind(p) \/ UpdateReverse(p) \/ (\E body \in updates : UpdateWrite(p, body))
  \/ UpdateApply(p)
  \/ DeleteFind(p) \/ DeleteReverse(p) \/ DeleteRemove(p)
  \/ Respond(p)

HandleAccount(p) == DeleteAccountFind(p) \/ DeleteAccountRemove(p)

\* requests arrive one at a time
Next ==
  \/ Tick
  \/ \E p \in SeqProcs :
       \/ \E user \in Users, a \in AcctIds : BeginCreate(p, SeqProcs, user, a, MaxOps)
       \/ \E user \in Users, id \in TxIds : BeginUpdate(p, user, id, MaxOps)
       \/ \E user \in Users, id \in TxIds : BeginDelete(p, user, id, MaxOps)
       \/ \E user \in Users, id \in TxIds : BeginGet(p, user, id, MaxOps)
       \/ \E user \in Users, a \in AcctIds : BeginDeleteAccount(p, user, a, MaxOps)
       \/ Handle(p, CreateBodies, UpdateBodies)
       \/ GetFind(p)
       \/ HandleAccount(p)

Spec == Init /\ [][Next]_vars

-----------------------------------------------------------------------------
(* Two requests of one user at a time, interleaved at every await *)

ConcAccts == {"a1"}

ConcCreateBodies ==
  {b \in CreateBodies : /\ b.amount = <<1>>
                          /\ b.toAccountId = IF b.type = "transfer" THEN "a2" ELSE Absent}

ConcUpdateBodies ==
  {b \in UpdateBodies : /\ b.accountId = Absent /\ b.toAccountId = Absent
                          /\ b.amount \in {<<>>, <<2>>} /\ b.type \in {Absent, "income"}}

NextConc ==
  \E p \in ConcProcs :
    \/ \E a \in ConcAccts : BeginCreate(p, ConcProcs, "u1", a, MaxConcOps)
    \/ \E id \in TxIds : BeginUpdate(p, "u1", id, MaxConcOps)
    \/ \E id \in TxIds : BeginDelete(p, "u1", id, MaxConcOps)
    \/ Handle(p, ConcCreateBodies, ConcUpdateBodies)

SpecConc == Init /\ [][NextConc]_vars

-----------------------------------------------------------------------------
(* The accounts API next to createTransaction, one request at a time *)

\* requests accepted in one behaviour
MaxAccountOps == 3

AccountCreateBodies == {b \in CreateBodies : b.amount = <<1>>}

NextAccounts ==
  \E p \in SeqProcs :
    \/ \E user \in Users, a \in AcctIds : BeginCreate(p, SeqProcs, user, a, MaxAccountOps)
    \/ CreateFindAccount(p) \/ (\E body \in AccountCreateBodies : CreateInsert(p, body))
    \/ CreateApply(p)
    \/ \E user \in Users, a \in AcctIds : BeginUpdateAccount(p, user, a, MaxAccountOps)
    \/ UpdateAccountFind(p) \/ (\E body \in AccountBodies : UpdateAccountWrite(p, body))
    \/ \E user \in Users, a \in AcctIds : BeginRecalibrate(p, user, a, MaxAccountOps)
    \/ RecalibrateFind(p) \/ RecalibrateWrite(p)
    \/ Respond(p)

SpecAccounts == Init /\ [][NextAccounts]_vars

-----------------------------------------------------------------------------
(* The records of one user over time, one request at a time *)

\* requests accepted in one behaviour
MaxRecordOps == 3

RecordCreateBodies ==
  {b \in [accountId : {"a1"}, type : Types, amount : {<<0>>, <<1>>},
          toAccountId : {Absent, "a2"}] :
     b.toAccountId = IF b.type = "transfer" THEN "a2" ELSE Absent}

\* every update sets the amount to 2 and names a createdAt
RecordUpdateBodies ==
  [accountId : {Absent}, type : {Absent, "expense"}, amount : {<<2>>},
   toAccountId : {Absent}, createdAt : {<<6>>, <<12>>}]

NextRecord ==
  \/ Tick
  \/ \E p \in SeqProcs :
       \/ BeginCreate(p, SeqProcs, "u1", "a1", MaxRecordOps)
       \/ \E id \in TxIds : BeginUpdate(p, "u1", id, MaxRecordOps)
       \/ \E id \in TxIds : BeginDelete(p, "u1", id, MaxRecordOps)
       \/ Handle(p, RecordCreateBodies, RecordUpdateBodies)

SpecRecord == Init /\ [][NextRecord]_vars

-----------------------------------------------------------------------------
(* getCategoryBreakdown *)

Categories == {"food", "rent"}

\* amounts a persisted transaction can have (min: 0)
MatchedAmounts == {0, 1, 2}

\* the transactions that pass { $match: matchStage }, for every store and
\* every filter set
MatchedInputs ==
  UNION {[1..n -> [category : Categories, amount : MatchedAmounts]] : n \in 0..MaxMatched}

RECURSIVE SumAmounts(_, _)
SumAmounts(m, c) ==
  IF m = <<>> THEN 0
  ELSE (IF Head(m).category = c THEN Head(m).amount ELSE 0) + SumAmounts(Tail(m), c)

\* { $group: { _id: '$category', total: { $sum: '$amount' }, count: { $sum: 1 } } }
\* and the $project that renames _id
Group(m) ==
  {[category |-> c, total |-> SumAmounts(m, c),
    count |-> Cardinality({i \in DOMAIN m : m[i].category = c})] :
     c \in {m[i].category : i \in DOMAIN m}}

\* { $sort: { total: -1 } }: the rows in an order of descending total
Sorted(rows) ==
  {b \in [1..Cardinality(rows) -> rows] :
     /\ \A i, j \in DOMAIN b : i < j => b[i] # b[j] /\ b[i].total >= b[j].total}

RECURSIVE SumTotals(_)
\* breakdown.reduce((sum, item) => sum + item.total, 0)
SumTotals(b) == IF b = <<>> THEN 0 ELSE Head(b).total + SumTotals(Tail(b))

\* NaN.toFixed(2) is "NaN"
NaN == [nan |-> TRUE, hundredths |-> 0]

\* ((item.total / totalAmount) * 100).toFixed(2), in hundredths of a percent,
\* rounded to the nearest; 0 / 0 is NaN
Percentage(total, totalAmount) ==
  IF totalAmount = 0 THEN NaN
  ELSE [nan |-> FALSE, hundredths |-> (20000 * total + totalAmount) \div (2 * totalAmount)]

\* const breakdown = await Transaction.aggregate([...])
BreakdownAggregate ==
  /\ report.pc = "aggregate"
  /\ \E b \in Sorted(Group(report.matched)) :
       report' = [report EXCEPT !.breakdown = b, !.pc = "percentage"]
  /\ UNCHANGED <<accounts, transactions, nextId, clock, ops, loc, issued>>

\* totalAmount, "Add percentage", res.status(200).json(...)
BreakdownRespond ==
  LET totalAmount == SumTotals(report.breakdown)
  IN /\ report.pc = "percentage"
     /\ report' = [report EXCEPT
                     !.breakdown = [i \in DOMAIN @ |->
                                      [category |-> @[i].category, total |-> @[i].total,
                                       count |-> @[i].count,
                                       percentage |-> Percentage(@[i].total, totalAmount)]],
                     !.total = totalAmount, !.pc = "done"]
     /\ UNCHANGED <<accounts, transactions, nextId, clock, ops, loc, issued>>

InitReport ==
  /\ InitStore
  /\ \E m \in MatchedInputs : report = [NoReport EXCEPT !.matched = m, !.pc = "aggregate"]

NextReport == BreakdownAggregate \/ BreakdownRespond

SpecReport == InitReport /\ [][NextReport]_vars

-----------------------------------------------------------------------------
(* Vocabulary of the properties *)

\* the request handled one at a time
R == loc[1]

Returned(op) == R.pc = "done" /\ R.op = op

Before == R.pre[1]

\* what one persisted transaction contributes to the balance of account a:
\* income +amount, expense -amount, transfer -amount on accountId and +amount
\* on toAccountId
EffectOn(t, a) ==
  (IF t.accountId = a THEN (IF t.type = "income" THEN t.amount ELSE -t.amount) ELSE 0)
  + (IF t.type = "transfer" /\ t.toAccountId = a THEN t.amount ELSE 0)

RECURSIVE SumEffects(_, _, _)
SumEffects(txs, ids, a) ==
  IF ids = {} THEN 0
  ELSE LET i == CHOOSE x \in ids : TRUE
       IN EffectOn(txs[i], a) + SumEffects(txs, ids \ {i}, a)

Ledger(a) == SumEffects(transactions, DOMAIN transactions, a)

Quiescent == \A p \in DOMAIN loc : ~InFlight(p)

BalancesAsBefore ==
  \A a \in DOMAIN accounts : accounts[a].balance = Before.accounts[a].balance

-----------------------------------------------------------------------------
(* Balance invariant *)

\* C1: whenever no request is in flight and every request so far succeeded,
\* each account's balance is its openingBalance plus the effects of the
\* transactions currently persisted.
BalanceIsOpeningPlusLedger ==
  (Quiescent /\ ~R.failed) =>
    \A a \in DOMAIN accounts :
      accounts[a].balance = accounts[a].openingBalance + Ledger(a)

\* C2: once the concurrent requests have all completed, each account's balance
\* is its starting balance plus the sum of every adjustment the requests issued
\* against it: no adjustment is lost, whatever the interleaving.
NoLostUpdate ==
  Quiescent =>
    \A a \in DOMAIN accounts :
      accounts[a].balance = InitialAccounts[a].balance + issued[a]

\* two requests have completed, one of which adjusted an account while the
\* other had an adjustment of the same account pending
TwoRequestsRaced ==
  /\ \A p \in ConcProcs : loc[p].pc = "done" /\ loc[p].status \in {"200", "201"}
  /\ \E p \in ConcProcs : loc[p].raced

\* an income, an expense, or a transfer that has its destination
WellFormed(t) == t.type = "transfer" => t.toAccountId # Null

\* the old record with the fields of the payload laid over it; a record that
\* is no transfer has no destination
MergedPayload(t, b) ==
  LET type == IF b.type = Absent THEN t.type ELSE b.type
  IN [t EXCEPT !.type = type,
               !.accountId = IF b.accountId = Absent THEN @ ELSE b.accountId,
               !.amount = IF b.amount = <<>> THEN @ ELSE b.amount[1],
               !.toAccountId = IF type # "transfer" \/ b.toAccountId = Empty THEN Null
                               ELSE IF b.toAccountId = Absent THEN @ ELSE b.toAccountId]

\* C3: a successful updateTransaction leaves every balance at
\* before - effect(old record) + effect(old record merged with the payload),
\* for every old and new record that is well formed.
UpdateIsReverseThenReapply ==
  (/\ Returned("updateTransaction") /\ R.status = "200"
   /\ WellFormed(R.old[1]) /\ WellFormed(MergedPayload(R.old[1], R.body))) =>
    \A a \in DOMAIN accounts :
      accounts[a].balance =
        Before.accounts[a].balance - EffectOn(R.old[1], a)
          + EffectOn(MergedPayload(R.old[1], R.body), a)

\* C4: a successful transfer of m between two accounts of the caller takes m
\* from X, gives m to Y and persists exactly two records, transfer_out on X
\* towards Y and transfer_in on Y towards X.
TransferPersistsPair ==
  LET X == R.body.accountId
      Y == R.body.toAccountId
      m == R.body.amount[1]
      new == DOMAIN transactions \ DOMAIN Before.transactions
  IN (/\ Returned("createTransaction") /\ R.status = "201"
      /\ R.body.type = "transfer" /\ Y \in DOMAIN Before.accounts /\ X # Y
      /\ Before.accounts[Y].userId = R.user)
     => /\ accounts[X].balance = Before.accounts[X].balance - m
        /\ accounts[Y].balance = Before.accounts[Y].balance + m
        /\ Cardinality(new) = 2
        /\ \E o \in new : /\ transactions[o].transferType = "transfer_out"
                          /\ transactions[o].accountId = X /\ transactions[o].toAccountId = Y
        /\ \E i \in new : /\ transactions[i].transferType = "transfer_in"
                          /\ transactions[i].accountId = Y /\ transactions[i].toAccountId = X

\* C5: when createTransaction or updateTransaction returns an error, every
\* account balance is what it was before the request.
FailedRequestRestoresBalances ==
  ((Returned("createTransaction") \/ Returned("updateTransaction")) /\ R.status = "error")
    => BalancesAsBefore

-----------------------------------------------------------------------------
(* Edit window, ownership, deletion, missing accounts *)

TransactionOps == {"createTransaction", "updateTransaction", "deleteTransaction"}

\* C6: updateTransaction and deleteTransaction of a transaction of the caller
\* answer 403 exactly when now - createdAt >= 12 hours, and a 403 leaves the
\* records and the balances as they were.
EditWindowEnforced ==
  (R.pc = "done" /\ R.op \in {"updateTransaction", "deleteTransaction"} /\ R.old # <<>>) =>
    /\ R.status = "403" <=> R.now - R.old[1].createdAt >= EditWindow
    /\ R.status = "403" => (accounts = Before.accounts /\ transactions = Before.transactions)

\* a request on a transaction that is exactly 12 hours old has been refused
RefusedAtTwelveHours ==
  /\ R.pc = "done" /\ R.op \in {"updateTransaction", "deleteTransaction"}
  /\ R.status = "403" /\ R.now - R.old[1].createdAt = EditWindow

\* C7: no transaction request changes the balance of an account the caller
\* does not own.
OtherUsersBalancesUntouched ==
  (R.pc = "done" /\ R.op \in TransactionOps) =>
    \A a \in DOMAIN accounts :
      accounts[a].userId # R.user => accounts[a].balance = Before.accounts[a].balance

\* a successful deleteTransaction has taken the record's effect back from every
\* balance and the record is gone
DeletePost ==
  (Returned("deleteTransaction") /\ R.status = "200") =>
    /\ \A a \in DOMAIN accounts :
         accounts[a].balance = Before.accounts[a].balance - EffectOn(R.old[1], a)
    /\ R.txId \notin DOMAIN transactions

\* a record that is gone does not come back
StaysRemoved ==
  \A id \in TxIds :
    (id < nextId /\ id \notin DOMAIN transactions) => id \notin DOMAIN transactions'

\* C8: a successful deleteTransaction takes the record's effect back from every
\* balance (income B - N, expense B + N, transfer +amount on the source and
\* -amount on the destination) and removes the record, which is then absent
\* for good.
DeleteReversesAndRemoves == []DeletePost /\ [][StaysRemoved]_vars

\* a transfer with its destination has been deleted
TransferDeleted ==
  /\ Returned("deleteTransaction") /\ R.status = "200"
  /\ R.old[1].type = "transfer" /\ R.old[1].toAccountId \in DOMAIN accounts
  /\ R.old[1].toAccountId # R.old[1].accountId

\* C9: a transaction request that answers 200 or 201 has applied every balance
\* adjustment it issued: none went to an account that is not in the store.
SuccessMeansAdjusted ==
  (R.pc = "done" /\ R.op \in TransactionOps /\ R.status \in {"200", "201"}) => ~R.missed

\* C10: createTransaction on an account that is missing or belongs to another
\* user answers 404, persists nothing and changes no balance.
CreateOnForeignAccountRefused ==
  (/\ Returned("createTransaction")
   /\ \/ R.body.accountId \notin DOMAIN Before.accounts
      \/ Before.accounts[R.body.accountId].userId # R.user)
  => /\ R.status = "404"
     /\ transactions = Before.transactions
     /\ accounts = Before.accounts

\* createTransaction has been refused on an account of another user
ForeignAccountRefused ==
  /\ Returned("createTransaction") /\ R.status = "404"
  /\ R.body.accountId \in DOMAIN accounts
  /\ accounts[R.body.accountId].userId # R.user

-----------------------------------------------------------------------------
(* Records of other users *)

\* C11: getTransaction, updateTransaction and deleteTransaction answer the
\* same 404 for an id that is not in the store and for an id whose record
\* belongs to another user, and in both cases leave every record and every
\* balance as they were.
NotFoundIndistinguishable ==
  (/\ R.pc = "done"
   /\ R.op \in {"getTransaction", "updateTransaction", "deleteTransaction"}
   /\ \/ R.txId \notin DOMAIN Before.transactions
      \/ Before.transactions[R.txId].userId # R.user)
  => /\ R.status = "404"
     /\ transactions = Before.transactions
     /\ accounts = Before.accounts

\* a request on a record of another user has been answered
ForeignRecordAnswered ==
  /\ R.pc = "done"
  /\ R.op \in {"getTransaction", "updateTransaction", "deleteTransaction"}
  /\ R.txId \in DOMAIN transactions
  /\ transactions[R.txId].userId # R.user

-----------------------------------------------------------------------------
(* Accounts: recalibration, updateAccount *)

\* C12: recalibrate is idempotent: on the store a successful recalibrate(A)
\* leaves, a second recalibrate(A) computes the balance that is already
\* stored, so the balance after the second run is the balance after the first.
RecalibrateIdempotent ==
  (Returned("recalibrateAccount") /\ R.status = "200") =>
    LET A == accounts[R.body.accountId]
    IN RecalibratedBalance(A, transactions) = A.balance

\* a recalibration has corrected a stored balance that had drifted from the
\* records of the account
DriftRecalibrated ==
  /\ Returned("recalibrateAccount") /\ R.status = "200"
  /\ \E id \in DOMAIN transactions : transactions[id].accountId = R.body.accountId
  /\ accounts[R.body.accountId].balance # Before.accounts[R.body.accountId].balance

\* C13: updateAccount, whatever its request body, leaves every balance as it was.
UpdateAccountKeepsBalance ==
  Returned("updateAccount") => BalancesAsBefore

\* C14: the openingBalance of an account is the one it was created with,
\* whatever requests have been served (updateAccount with openingBalance in
\* its body included).
OpeningBalanceImmutable ==
  \A a \in DOMAIN accounts :
    accounts[a].openingBalance = InitialAccounts[a].openingBalance

-----------------------------------------------------------------------------
(* Persisted records *)

\* C15: once the requests have returned, every persisted transaction has a
\* strictly positive amount.
AmountStrictlyPositive ==
  Quiescent => \A id \in DOMAIN transactions : transactions[id].amount > 0

-----------------------------------------------------------------------------
(* Reports *)

RECURSIVE SumHundredths(_)
SumHundredths(b) == IF b = <<>> THEN 0 ELSE Head(b).percentage.hundredths + SumHundredths(Tail(b))

\* C16: the percentages of a category breakdown that returns at least one
\* category are numbers and sum to 100, each of them off by at most half a
\* hundredth; this covers the breakdown of transactions that all have amount 0.
PercentagesSumTo100 ==
  (report.pc = "done" /\ report.breakdown # <<>>) =>
    LET b == report.breakdown
        off == SumHundredths(b) - 10000
    IN /\ \A i \in DOMAIN b : ~b[i].percentage.nan
       /\ 2 * off <= Len(b) /\ -2 * off <= Len(b)

\* C17: in every state a persisted transaction has a transferType exactly when
\* its type is transfer, and one that is no transfer has no toAccountId.
TransferTypeIffTransfer ==
  \A id \in DOMAIN transactions :
    LET t == transactions[id]
    IN /\ t.transferType \in {"transfer_out", "transfer_in"} <=> t.type = "transfer"
       /\ t.type # "transfer" => t.toAccountId = Null

\* C18: when the second request of a behaviour deletes the record that the
\* first request created, every balance is back at its value before the
\* create, whatever the type of the record.
CreateThenDeleteRestores ==
  (ops = 2 /\ Returned("deleteTransaction") /\ R.status = "200") =>
    \A a \in DOMAIN accounts : accounts[a].balance = InitialAccounts[a].balance

-----------------------------------------------------------------------------
(* Two requests on one record *)

\* the two requests in flight were a deleteTransaction and a deleteTransaction
\* or an updateTransaction of the same record, and both have returned
TwoOnOneRecord ==
  /\ \A p \in ConcProcs : loc[p].pc = "done"
  /\ loc[1].txId = loc[2].txId
  /\ \E p, q \in ConcProcs :
       /\ p # q
       /\ loc[p].op = "deleteTransaction"
       /\ loc[q].op \in {"deleteTransaction", "updateTransaction"}
       /\ loc[q].op = "updateTransaction" =>
            (loc[q].old # <<>> => WellFormed(MergedPayload(loc[q].old[1], loc[q].body)))

\* C19: when a deleteTransaction and a second deleteTransaction or an
\* updateTransaction of the same record have both returned, however they were
\* interleaved, each balance is its openingBalance plus the effects of the
\* records that remain: the effect of the record was taken back at most once.
ReversedAtMostOnce ==
  (ops = 3 /\ TwoOnOneRecord) =>
    \A a \in DOMAIN accounts :
      accounts[a].balance = accounts[a].openingBalance + Ledger(a)

-----------------------------------------------------------------------------
(* The edit window over time *)

\* a request on a record whose window has expired is refused
RefusedWhenExpired ==
  (/\ R.pc = "done" /\ R.op \in {"updateTransaction", "deleteTransaction"}
   /\ R.old # <<>> /\ ~IsEditable(R.old[1], R.now)) => R.status = "403"

\* a record whose window has expired stays in the store with its window expired
ExpiredStaysExpired ==
  \A id \in DOMAIN transactions :
    ~IsEditable(transactions[id], clock) =>
      id \in DOMAIN transactions' /\ ~IsEditable(transactions'[id], clock')

\* no step changes the createdAt of a record
CreatedAtKept ==
  \A id \in DOMAIN transactions \cap DOMAIN transactions' :
    transactions'[id].createdAt = transactions[id].createdAt

\* C20: the edit window never reopens: no step changes the createdAt of a
\* record (an accepted update whose payload names a createdAt included), a
\* record whose window has expired keeps it expired, and every update or
\* delete of such a record is refused with 403.
EditWindowNeverReopens ==
  []RefusedWhenExpired /\ [][ExpiredStaysExpired /\ CreatedAtKept]_vars

\* a request has been refused on a record that an earlier update, whose
\* payload named a createdAt, had changed while its window was open
RefusedAfterUpdateNamedCreatedAt ==
  /\ R.pc = "done" /\ R.op \in {"updateTransaction", "deleteTransaction"}
  /\ R.status = "403"
  /\ R.old[1].amount = 2

====
